---- MODULE Spec2Model ----
(***************************************************************************)
(* handle-rate-limiting-js: RateLimitingFetch, a fetch wrapper that        *)
(* retries 429/500/503 responses with backoff, jitter and Retry-After, and *)
(* DefaultRetryDetector.computeRetryInfo, the same decision as a function. *)
(*                                                                         *)
(* JavaScript numbers are modelled as exact rationals [n, d] with d > 0,   *)
(* and NaN as 0/0.  Strings are sequences of one-character strings.        *)
(***************************************************************************)
EXTENDS Integers, Sequences, FiniteSets, TLC

\* ------------------------------------------------------------------ bounds

\* Math.random() is drawn from {0/RandomSteps, ..., (RandomSteps-1)/RandomSteps}.
RandomSteps == 2

\* ----------------------------------------------------------------- numbers

NaN == [n |-> 0, d |-> 0]

Abs(i) == IF i < 0 THEN -i ELSE i

RECURSIVE GCD(_, _)
GCD(a, b) == IF b = 0 THEN a ELSE GCD(b, a % b)

\* The number n/d in lowest terms; x/0 is NaN.
Rat(n, d) ==
    IF d = 0 THEN NaN
    ELSE LET g == GCD(Abs(n), Abs(d))
             s == IF d < 0 THEN -1 ELSE 1
         IN  [n |-> (s * n) \div g, d |-> (s * d) \div g]

Num(i) == [n |-> i, d |-> 1]

IsNaN(x) == x.d = 0

Mul(x, y) == Rat(x.n * y.n, x.d * y.d)

Add(x, y) == IF IsNaN(x) \/ IsNaN(y) THEN NaN
             ELSE Rat(x.n * y.d + y.n * x.d, x.d * y.d)

Sub(x, y) == IF IsNaN(x) \/ IsNaN(y) THEN NaN
             ELSE Rat(x.n * y.d - y.n * x.d, x.d * y.d)

\* x < y, x <= y, x > y of JavaScript: false as soon as one side is NaN.
Lt(x, y) == ~IsNaN(x) /\ ~IsNaN(y) /\ x.n * y.d < y.n * x.d
Le(x, y) == ~IsNaN(x) /\ ~IsNaN(y) /\ x.n * y.d <= y.n * x.d
Gt(x, y) == Lt(y, x)

\* Math.min(x, y)
MathMin(x, y) == IF IsNaN(x) \/ IsNaN(y) THEN NaN
                 ELSE IF Le(x, y) THEN x ELSE y

\* --------------------------------------------------------------- constants

minJitterMultiplier == 1
tooManyRequestsStatusCode == 429
internalServerErrorStatusCode == 500
serviceUnavailableStatusCode == 503

\* ----------------------------------------------------------------- strings

IsWhiteSpace(ch) == ch = " "

RECURSIVE TrimStart(_)
TrimStart(s) == IF s # <<>> /\ IsWhiteSpace(Head(s)) THEN TrimStart(Tail(s)) ELSE s

RECURSIVE TrimEnd(_)
TrimEnd(s) == IF s # <<>> /\ IsWhiteSpace(s[Len(s)])
              THEN TrimEnd(SubSeq(s, 1, Len(s) - 1)) ELSE s

\* String.prototype.trim
trim(s) == TrimEnd(TrimStart(s))

DigitChars == <<"0", "1", "2", "3", "4", "5", "6", "7", "8", "9",
                "a", "b", "c", "d", "e", "f">>

\* The value of a digit character, 16 for a character that is no digit.
DigitValue(ch) == IF \E i \in 1..16 : DigitChars[i] = ch
                  THEN (CHOOSE i \in 1..16 : DigitChars[i] = ch) - 1
                  ELSE 16

\* The longest prefix of s made of digits of the radix.
RECURSIVE DigitPrefix(_, _)
DigitPrefix(s, radix) ==
    IF s # <<>> /\ DigitValue(Head(s)) < radix
    THEN <<Head(s)>> \o DigitPrefix(Tail(s), radix)
    ELSE <<>>

RECURSIVE DigitsValue(_, _)
DigitsValue(s, radix) ==
    IF s = <<>> THEN 0
    ELSE DigitsValue(SubSeq(s, 1, Len(s) - 1), radix) * radix + DigitValue(s[Len(s)])

\* parseInt(string) without a radix argument: leading white space is skipped,
\* then an optional sign, an optional 0x, and the longest run of digits; NaN
\* when that run is empty.  It never throws.
parseInt(str) ==
    LET s0     == TrimStart(str)
        signed == s0 # <<>> /\ Head(s0) \in {"-", "+"}
        sign   == IF s0 # <<>> /\ Head(s0) = "-" THEN -1 ELSE 1
        s1     == IF signed THEN Tail(s0) ELSE s0
        hex    == Len(s1) >= 2 /\ s1[1] = "0" /\ s1[2] = "x"
        radix  == IF hex THEN 16 ELSE 10
        s2     == IF hex THEN SubSeq(s1, 3, Len(s1)) ELSE s1
        digits == DigitPrefix(s2, radix)
    IN  IF digits = <<>> THEN NaN ELSE Num(sign * DigitsValue(digits, radix))

\* --------------------------------------------------------------- responses

\* The value of a variable holding undefined | string.
Undefined == [defined |-> FALSE, value |-> <<>>]
Defined(s) == [defined |-> TRUE, value |-> s]

\* if (v) on undefined | string: undefined and "" are falsy.
Truthy(v) == v.defined /\ v.value # <<>>

\* response.headers.get(name): the headers are a map from names to strings.
HeadersGet(headers, name) ==
    IF name \in DOMAIN headers THEN Defined(headers[name]) ELSE Undefined

NoHeaders == [name \in {} |-> <<>>]
RetryAfter(s) == [name \in {"Retry-After"} |-> s]

Response(statusCode, headers) == [status |-> statusCode, headers |-> headers]

\* What the transport can answer.  429 comes without Retry-After and with
\* Retry-After "5", " 1 ", "0", "x" and ""; 503 and 200 without it and with "5";
\* 500 and 404 without it.
TransportResponses ==
    { Response(tooManyRequestsStatusCode, h) :
          h \in { NoHeaders, RetryAfter(<<"5">>), RetryAfter(<<" ", "1", " ">>),
                  RetryAfter(<<"0">>), RetryAfter(<<"x">>), RetryAfter(<<>>) } }
    \cup { Response(internalServerErrorStatusCode, NoHeaders) }
    \cup { Response(serviceUnavailableStatusCode, h) : h \in { NoHeaders, RetryAfter(<<"5">>) } }
    \cup { Response(200, h) : h \in { NoHeaders, RetryAfter(<<"5">>) } }
    \cup { Response(404, NoHeaders) }

\* The values Math.random() returns, in [0, 1).
RandomValues == { Rat(k, RandomSteps) : k \in 0..(RandomSteps - 1) }

\* ----------------------------------------------------------------- options

\* The RateLimitingHandlingOptions values a caller constructs the instance
\* with; maxRetries is an integer, the other fields are numbers.
OptionValues ==
    [ maxRetries              : { -1, 0, 1, 2 },
      maxRetryDelayMillis     : { Num(0), Num(4000), Num(60000) },
      backoffMultiplier       : { Num(2), Num(3) },
      initialRetryDelayMillis : { Num(-100), Num(0), Num(5000) },
      maxJitterMultiplier     : { Rat(9, 10), Num(1), Rat(13, 10) } ]

nonUiContextRateLimitingHandlingOptionsDefaults ==
    [ maxRetries              |-> 2,
      maxRetryDelayMillis     |-> Num(60000),
      backoffMultiplier       |-> Num(2),
      initialRetryDelayMillis |-> Num(5000),
      maxJitterMultiplier     |-> Rat(13, 10) ]

\* ------------------------------------------------------------------- state

VARIABLES
    constructed,    \* "none" before new RateLimitingFetch(options), then "ok" or "threw"
    fetchImplementation, \* this.fetchImplementation: "NodeFetch" or "MockingFetch"
    nextMockFetchInfo,   \* SimpleMockFetchController.nextMockFetchInfo of the MockingFetch
    options,        \* this.options
    statsRecorder,  \* this.statsRecorder: "Noop" or "Simple"
    debugEnabled,   \* this.debugEnabled
    stats,          \* SimpleRateLimitingFetchStatsRecorder.stats
    calls           \* the logical requests: one record per RateLimitingFetch.fetch call

vars == <<constructed, fetchImplementation, nextMockFetchInfo, options, statsRecorder, debugEnabled, stats, calls>>

\* The logical requests of a behaviour.
Calls == DOMAIN calls

NoResponse == [status |-> 0, headers |-> NoHeaders, attempt |-> 0]

\* fetch(url, init?): init is a RequestInit, here its method, or undefined.
NoInit == [defined |-> FALSE, method |-> ""]
RequestInit(method) == [defined |-> TRUE, method |-> method]

\* A MockFetchInfo: the status code of the fabricated response and the headers
\* its addResponseHeaders sets; NoMockFetchInfo is undefined.
NoMockFetchInfo == [defined |-> FALSE, responseStatusCode |-> 0, headers |-> NoHeaders]
MockFetchInfo(responseStatusCode, headers) ==
    [defined |-> TRUE, responseStatusCode |-> responseStatusCode, headers |-> headers]

\* SimpleMockFetchController.getMockFetchInfo
getMockFetchInfo(nextInfo) == nextInfo

\* What an invocation of the fetch implementation gets from the controller
\* before it answers: MockingFetch.fetch asks its controller on entry, a
\* NodeFetch has none and makes a real exchange.
mockFetchInfo(implementation, nextInfo) ==
    IF implementation = "MockingFetch" THEN getMockFetchInfo(nextInfo) ELSE NoMockFetchInfo

\* A fabricated response that leaves out the headers of addResponseHeaders.
rateLimitResponse_WithoutHeaders(info) == Response(info.responseStatusCode, NoHeaders)

\* MockingFetch.fetch with mock info: the response is fabricated without any
\* exchange, with the headers a fresh Map gets from addResponseHeaders.
rateLimitResponse(info) == Response(info.responseStatusCode, info.headers)

\* resp is what the pending invocation resolves with: the fabricated response
\* when it got mock info, and whatever the real exchange brings otherwise.
TransportAnswers(info, resp) == info.defined => resp = rateLimitResponse(info)

\* The url and init callers pass to fetch.
Requests ==
    { [url |-> "https://example.com/a", init |-> NoInit],
      [url |-> "https://example.com/b", init |-> RequestInit("POST")] }

\* A logical request before fetch is called.
\*   pc            "idle", "awaiting" (the current _fetch frame awaits the
\*                 transport), "returned" or "threw"
\*   remainintRetries, lastRetryDelayMillis
\*                 the arguments of the current _fetch frame
\*   url, init     the arguments the caller passed to fetch
\*   invocations   the transport invocations of the request so far
\*   transportCalls the (url, init) of each of these invocations, in order
\*   fetchedWith   the fetch implementation each of them went to, in order
\*   mockFetchInfo the mock info the pending invocation got from its
\*                 controller; not defined when it makes a real exchange
\*   retriesLogged the logRetry calls of the request so far
\*   timers        the attempts whose _delay timer is pending
\*   resumed       the last _fetch frame that resumed after its await: the
\*                 arguments it had and the values of its locals
\*   console       the lines the request's frames wrote with console.log
\*   returned      the response the caller of fetch got
NoFrame ==
    [ remainintRetries           |-> 0,
      lastRetryDelayMillis       |-> Num(0),
      response                   |-> NoResponse,
      responseNeedsRetry         |-> FALSE,
      unjitteredRetryDelayMillis |-> Num(-1),
      retried                    |-> FALSE,
      jitterMultiplier           |-> Num(0),
      retryDelayMillis           |-> Num(0) ]

IdleCall ==
    [ pc                   |-> "idle",
      remainintRetries     |-> 0,
      lastRetryDelayMillis |-> Num(0),
      url                  |-> "",
      init                 |-> NoInit,
      invocations          |-> 0,
      transportCalls       |-> <<>>,
      fetchedWith          |-> <<>>,
      mockFetchInfo        |-> NoMockFetchInfo,
      retriesLogged        |-> 0,
      timers               |-> {},
      resumed              |-> NoFrame,
      console              |-> <<>>,
      returned             |-> NoResponse ]

\* Nothing is constructed yet; the caller will make the requests of callIds.
\* options holds a placeholder until Constructor stores the caller's options;
\* the default fetchImplementation is a NodeFetch, and the controller of the
\* caller's MockingFetch has no mock info;
\* the default statsRecorder is the Noop one, which keeps no stats, and debug
\* logging is off.
InitCalls(callIds) ==
    /\ constructed = "none"
    /\ fetchImplementation = "NodeFetch"
    /\ nextMockFetchInfo = NoMockFetchInfo
    /\ options = nonUiContextRateLimitingHandlingOptionsDefaults
    /\ statsRecorder = "Noop"
    /\ debugEnabled = FALSE
    /\ stats = [fetchAttemptCount |-> 0, fetchRetryCount |-> 0,
                totalFetchRetryDelay |-> Num(0)]
    /\ calls = [c \in callIds |-> IdleCall]

\* One logical request on the instance.
Init == InitCalls({1})

\* ------------------------------------------------------- RateLimitingFetch

\* Mutant of _validateOptions: a maxRetryDelayMillis of 0 is let through.
_validateOptions_ZeroDelayAllowed(o) ==
    \/ o.maxRetries < 0
    \/ Lt(o.maxRetryDelayMillis, Num(0))
    \/ Lt(o.maxJitterMultiplier, Num(minJitterMultiplier))

\* _validateOptions: TRUE when it throws.
_validateOptions(o) ==
    \/ o.maxRetries < 0
    \/ Le(o.maxRetryDelayMillis, Num(0))
    \/ Lt(o.maxJitterMultiplier, Num(minJitterMultiplier))

\* new RateLimitingFetch(o): the options are stored, then validated.
Constructor(o) ==
    /\ constructed = "none"
    /\ options' = o
    /\ constructed' = IF _validateOptions(o) THEN "threw" ELSE "ok"
    /\ UNCHANGED <<fetchImplementation, nextMockFetchInfo, statsRecorder, debugEnabled, stats, calls>>

\* logFetchAttempt reaching the Simple recorder whichever recorder is set.
logFetchAttempt_AlwaysRecords(recorder, st) ==
    [st EXCEPT !.fetchAttemptCount = @ + 1]

\* statsRecorder.logFetchAttempt() on the stats st
logFetchAttempt(recorder, st) ==
    IF recorder = "Simple"
    THEN [st EXCEPT !.fetchAttemptCount = @ + 1]
    ELSE st

\* logRetry counting the retry without adding its delay.
logRetry_CountOnly(recorder, st, delayMillis) ==
    IF recorder = "Simple"
    THEN [st EXCEPT !.fetchRetryCount = @ + 1]
    ELSE st

\* statsRecorder.logRetry(delayMillis) on the stats st
logRetry(recorder, st, delayMillis) ==
    IF recorder = "Simple"
    THEN [st EXCEPT !.fetchRetryCount = @ + 1,
                    !.totalFetchRetryDelay = Add(@, delayMillis)]
    ELSE st

\* Mutant of _randomInRange: the range starts at 0 instead of min.
_randomInRange_FromZero(min, max, random) == Mul(random, max)

\* _randomInRange(min, max) with Math.random() = random
_randomInRange(min, max, random) == Add(min, Mul(random, Sub(max, min)))

\* Mutant of responseNeedsRetry: every 4xx and 5xx status is retried.
responseNeedsRetry_AnyError(statusCode) == statusCode >= 400

\* _fetch, lines 73-76
responseNeedsRetry(statusCode) ==
    \/ statusCode = tooManyRequestsStatusCode
    \/ statusCode = internalServerErrorStatusCode
    \/ statusCode = serviceUnavailableStatusCode

\* Mutant of unjitteredRetryDelayMillis: the backoff is tested before the
\* Retry-After header.
unjitteredRetryDelayMillis_BackoffFirst(o, lastRetryDelayMillis, response) ==
    LET retryAfterHeader == HeadersGet(response.headers, "Retry-After")
    IN  IF Gt(lastRetryDelayMillis, Num(0))
        THEN MathMin(Mul(o.backoffMultiplier, lastRetryDelayMillis),
                     o.maxRetryDelayMillis)
        ELSE IF Truthy(retryAfterHeader)
             THEN Mul(Num(1000), parseInt(trim(retryAfterHeader.value)))
             ELSE o.initialRetryDelayMillis

\* Mutant of unjitteredRetryDelayMillis: the backoff is not capped.
unjitteredRetryDelayMillis_Uncapped(o, lastRetryDelayMillis, response) ==
    LET retryAfterHeader == HeadersGet(response.headers, "Retry-After")
    IN  IF Truthy(retryAfterHeader)
        THEN Mul(Num(1000), parseInt(trim(retryAfterHeader.value)))
        ELSE IF Gt(lastRetryDelayMillis, Num(0))
             THEN Mul(o.backoffMultiplier, lastRetryDelayMillis)
             ELSE o.initialRetryDelayMillis

\* A first delay that falls back to one second when initialRetryDelayMillis
\* is not positive.
unjitteredRetryDelayMillis_DefaultsInitial(o, lastRetryDelayMillis, response) ==
    LET retryAfterHeader == HeadersGet(response.headers, "Retry-After")
    IN  IF Truthy(retryAfterHeader)
        THEN Mul(Num(1000), parseInt(trim(retryAfterHeader.value)))
        ELSE IF Gt(lastRetryDelayMillis, Num(0))
             THEN MathMin(Mul(o.backoffMultiplier, lastRetryDelayMillis),
                          o.maxRetryDelayMillis)
             ELSE IF Gt(o.initialRetryDelayMillis, Num(0))
                  THEN o.initialRetryDelayMillis
                  ELSE Num(1000)

\* _fetch, lines 81-96: the value of unjitteredRetryDelayMillis for a response
\* that needs a retry.  parseInt does not throw, so the catch never runs.
unjitteredRetryDelayMillis(o, lastRetryDelayMillis, response) ==
    LET retryAfterHeader == HeadersGet(response.headers, "Retry-After")
    IN  IF Truthy(retryAfterHeader)
        THEN LET retryAfterSeconds == parseInt(trim(retryAfterHeader.value))
             IN  Mul(Num(1000), retryAfterSeconds)
        ELSE IF Gt(lastRetryDelayMillis, Num(0))
             THEN MathMin(Mul(o.backoffMultiplier, lastRetryDelayMillis),
                          o.maxRetryDelayMillis)
             ELSE o.initialRetryDelayMillis

\* Mutant of shouldRetry: the budget is not tested.
shouldRetry_IgnoresBudget(remainintRetries, unjittered) ==
    Gt(unjittered, Num(0))

\* Mutant of shouldRetry: the budget test is off by one.
shouldRetry_OffByOne(remainintRetries, unjittered) ==
    remainintRetries >= 0 /\ Gt(unjittered, Num(0))

\* The test of line 97 with >= 0 on the delay.
shouldRetry_ZeroDelayRetries(remainintRetries, unjittered) ==
    remainintRetries > 0 /\ Le(Num(0), unjittered)

\* _fetch, line 97
shouldRetry(remainintRetries, unjittered) ==
    remainintRetries > 0 /\ Gt(unjittered, Num(0))

\* fetch on an instance that keeps the retries left in a field shared by its
\* requests: a request started while another is in flight goes on with what
\* that one has left.
Fetch_SharedBudget(c, request) ==
    /\ constructed = "ok"
    /\ calls[c].pc = "idle"
    /\ \A d \in Calls : d < c => calls[d].pc # "idle"
    /\ stats' = logFetchAttempt(statsRecorder, stats)
    /\ calls' = [calls EXCEPT ![c] =
                    [@ EXCEPT !.pc = "awaiting",
                              !.url = request.url,
                              !.init = request.init,
                              !.transportCalls = <<[url |-> request.url, init |-> request.init]>>,
                              !.fetchedWith = <<fetchImplementation>>,
                              !.mockFetchInfo =
                                  mockFetchInfo(fetchImplementation, nextMockFetchInfo),
                              !.remainintRetries =
                                  IF \E d \in Calls : calls[d].pc = "awaiting"
                                  THEN calls[CHOOSE d \in Calls : calls[d].pc = "awaiting"].remainintRetries
                                  ELSE options.maxRetries,
                              !.lastRetryDelayMillis = Num(0),
                              !.invocations = 1]]
    /\ UNCHANGED <<constructed, fetchImplementation, nextMockFetchInfo, options, statsRecorder, debugEnabled>>

\* fetch on an instance that keeps the last retry delay in a field: a request
\* started after another one retried backs off from that one's delay.
Fetch_KeepsLastDelay(c, request) ==
    /\ constructed = "ok"
    /\ calls[c].pc = "idle"
    /\ \A d \in Calls : d < c => calls[d].pc # "idle"
    /\ stats' = logFetchAttempt(statsRecorder, stats)
    /\ calls' = [calls EXCEPT ![c] =
                    [@ EXCEPT !.pc = "awaiting",
                              !.url = request.url,
                              !.init = request.init,
                              !.transportCalls = <<[url |-> request.url, init |-> request.init]>>,
                              !.fetchedWith = <<fetchImplementation>>,
                              !.mockFetchInfo =
                                  mockFetchInfo(fetchImplementation, nextMockFetchInfo),
                              !.remainintRetries = options.maxRetries,
                              !.lastRetryDelayMillis =
                                  IF \E d \in Calls : d < c
                                  THEN calls[CHOOSE d \in Calls : d < c /\ \A e \in Calls : e < c => e <= d].lastRetryDelayMillis
                                  ELSE Num(0),
                              !.invocations = 1]]
    /\ UNCHANGED <<constructed, fetchImplementation, nextMockFetchInfo, options, statsRecorder, debugEnabled>>

\* A recursive call that passes the url on but leaves init out.
retryArguments_WithoutInit(url, init) == [url |-> url, init |-> NoInit]

\* The url and init the recursive call of line 111 passes on.
retryArguments(url, init) == [url |-> url, init |-> init]

\* fetch(url, init): the first _fetch frame runs to its await: the attempt is
\* logged and the transport is invoked.  Requests are numbered in the order
\* they are started.
Fetch(c, request) ==
    /\ constructed = "ok"
    /\ calls[c].pc = "idle"
    /\ \A d \in Calls : d < c => calls[d].pc # "idle"
    /\ stats' = logFetchAttempt(statsRecorder, stats)
    /\ calls' = [calls EXCEPT ![c] =
                    [@ EXCEPT !.pc = "awaiting",
                              !.url = request.url,
                              !.init = request.init,
                              !.transportCalls = <<[url |-> request.url, init |-> request.init]>>,
                              !.fetchedWith = <<fetchImplementation>>,
                              !.mockFetchInfo =
                                  mockFetchInfo(fetchImplementation, nextMockFetchInfo),
                              !.remainintRetries = options.maxRetries,
                              !.lastRetryDelayMillis = Num(0),
                              !.invocations = 1]]
    /\ UNCHANGED <<constructed, fetchImplementation, nextMockFetchInfo, options, statsRecorder, debugEnabled>>

\* _fetch awaiting, before a retry, a delay promise that nothing resolves: a
\* response that needs a retry leaves the request waiting for good.
TransportReturns_AwaitsUnresolvedDelay(c, resp, random) ==
    /\ calls[c].pc = "awaiting"
    /\ TransportAnswers(calls[c].mockFetchInfo, resp)
    /\ LET f        == calls[c]
           response == [status |-> resp.status, headers |-> resp.headers,
                        attempt |-> f.invocations]
       IN  IF responseNeedsRetry(response.status)
           THEN calls' = [calls EXCEPT ![c] = [@ EXCEPT !.pc = "delaying"]]
           ELSE calls' = [calls EXCEPT ![c] =
                             [@ EXCEPT !.resumed =
                                           [NoFrame EXCEPT
                                               !.remainintRetries = f.remainintRetries,
                                               !.lastRetryDelayMillis = f.lastRetryDelayMillis,
                                               !.response = response],
                                       !.pc = "returned",
                                       !.returned = response]]
    /\ UNCHANGED <<constructed, fetchImplementation, nextMockFetchInfo, options, statsRecorder, debugEnabled, stats>>

\* A debug block that, besides logging, writes to a local of the frame: the
\* retries left are counted down in the logged expression.
debugLog_SpendsRetry(enabled, l, line) ==
    IF enabled
    THEN [l EXCEPT !.console = Append(@, line), !.remainintRetries = @ - 1]
    ELSE l

\* if (this.debugEnabled) { console.log(line); } in a frame whose locals are l
debugLog(enabled, l, line) ==
    IF enabled THEN [l EXCEPT !.console = Append(@, line)] ELSE l

\* The body of _fetch after its await, lines 72-120, as the values of the
\* frame's parameters and locals when it leaves that code: l.retried says that
\* it goes on to the recursive call of line 111, l.console holds the lines it
\* logged.  enabled is this.debugEnabled and random the value of Math.random().
_fetchLocals(enabled, o, remainintRetries, lastRetryDelayMillis, response, random) ==
    LET l0 == [ remainintRetries           |-> remainintRetries,
                lastRetryDelayMillis       |-> lastRetryDelayMillis,
                response                   |-> response,
                responseNeedsRetry         |-> responseNeedsRetry(response.status),
                unjitteredRetryDelayMillis |-> Num(-1),
                retried                    |-> FALSE,
                jitterMultiplier           |-> Num(0),
                retryDelayMillis           |-> Num(0),
                console                    |-> <<>> ]
    IN  IF l0.responseNeedsRetry
        THEN LET l1 == debugLog(enabled, l0, "Fetch was not successful")
                 l2 == [l1 EXCEPT !.unjitteredRetryDelayMillis =
                           unjitteredRetryDelayMillis(o, l1.lastRetryDelayMillis, l1.response)]
             IN  IF shouldRetry(l2.remainintRetries, l2.unjitteredRetryDelayMillis)
                 THEN LET l3 == debugLog(enabled, l2, "Unjittered rate limit retry delay")
                          l4 == [l3 EXCEPT !.jitterMultiplier =
                                    _randomInRange(Num(minJitterMultiplier),
                                                   o.maxJitterMultiplier, random)]
                          l5 == [l4 EXCEPT !.retryDelayMillis =
                                    Mul(l4.unjitteredRetryDelayMillis, l4.jitterMultiplier)]
                          l6 == debugLog(enabled, l5, "Delaying")
                          l7 == debugLog(enabled, l6, "Retrying fetch")
                      IN  [l7 EXCEPT !.retried = TRUE]
                 ELSE l2
        ELSE debugLog(enabled, l0, "Fetch was successful")

\* The parameters and locals of a frame, without what it logged.
Frame(l) == [k \in DOMAIN NoFrame |-> l[k]]

\* The transport's promise resolves with a response and the _fetch frame of
\* request c resumes after line 71.  When it retries, _delay starts a timer
\* that nothing awaits, the retry is logged, and the next _fetch frame runs to
\* its await in the same turn: the attempt is logged and the transport invoked.
\* When it does not, the response is returned through every frame to the
\* caller of fetch.
TransportReturns(c, resp, random) ==
    /\ calls[c].pc = "awaiting"
    /\ TransportAnswers(calls[c].mockFetchInfo, resp)
    /\ LET f        == calls[c]
           response == [status |-> resp.status, headers |-> resp.headers,
                        attempt |-> f.invocations]
       IN  \E l \in {_fetchLocals(debugEnabled, options, f.remainintRetries,
                                  f.lastRetryDelayMillis, response, random)} :
           IF l.retried
           THEN /\ calls' = [calls EXCEPT ![c] =
                                [@ EXCEPT !.resumed = Frame(l),
                                          !.console = @ \o l.console,
                                          !.timers = @ \cup {f.invocations},
                                          !.retriesLogged = @ + 1,
                                          !.remainintRetries = l.remainintRetries - 1,
                                          !.lastRetryDelayMillis = l.retryDelayMillis,
                                          !.transportCalls =
                                              Append(@, retryArguments(f.url, f.init)),
                                          !.fetchedWith = Append(@, fetchImplementation),
                                          !.mockFetchInfo =
                                              mockFetchInfo(fetchImplementation,
                                                            nextMockFetchInfo),
                                          !.invocations = @ + 1]]
                /\ stats' = logFetchAttempt(statsRecorder,
                                logRetry(statsRecorder, stats, l.retryDelayMillis))
           ELSE /\ calls' = [calls EXCEPT ![c] =
                                [@ EXCEPT !.resumed = Frame(l),
                                          !.console = @ \o l.console,
                                          !.pc = "returned",
                                          !.returned = l.response]]
                /\ stats' = stats
    /\ UNCHANGED <<constructed, fetchImplementation, nextMockFetchInfo, options, statsRecorder, debugEnabled>>

\* _fetch with the await wrapped in a try/catch that treats a transport error
\* like a retryable response while retries remain.
TransportThrows_CaughtAndRetried(c) ==
    /\ calls[c].pc = "awaiting"
    /\ ~calls[c].mockFetchInfo.defined
    /\ calls' = [calls EXCEPT ![c] =
                    IF @.remainintRetries > 0
                    THEN [@ EXCEPT !.retriesLogged = @ + 1,
                                   !.remainintRetries = @ - 1,
                                   !.invocations = @ + 1]
                    ELSE [@ EXCEPT !.pc = "threw"]]
    /\ UNCHANGED <<constructed, fetchImplementation, nextMockFetchInfo, options, statsRecorder, debugEnabled, stats>>

\* The transport's promise rejects: nothing in _fetch catches it.  A
\* MockingFetch with mock info fabricates its response and does not reject.
TransportThrows(c) ==
    /\ calls[c].pc = "awaiting"
    /\ ~calls[c].mockFetchInfo.defined
    /\ calls' = [calls EXCEPT ![c] = [@ EXCEPT !.pc = "threw"]]
    /\ UNCHANGED <<constructed, fetchImplementation, nextMockFetchInfo, options, statsRecorder, debugEnabled, stats>>

\* The setTimeout callback of _delay runs for the timer started after attempt n.
TimerFires(c, n) ==
    /\ n \in calls[c].timers
    /\ calls' = [calls EXCEPT ![c] = [@ EXCEPT !.timers = @ \ {n}]]
    /\ UNCHANGED <<constructed, fetchImplementation, nextMockFetchInfo, options, statsRecorder, debugEnabled, stats>>

\* ---------------------------------------------------- DefaultRetryDetector

\* RetryInfo | undefined
NoRetryInfo == [defined |-> FALSE, remainingRetries |-> 0, retryDelayMillis |-> Num(0)]
RetryInfo(remainingRetries, retryDelayMillis) ==
    [defined |-> TRUE, remainingRetries |-> remainingRetries,
     retryDelayMillis |-> retryDelayMillis]

\* DefaultRetryDetector.randomInRange(min, max) with Math.random() = random
randomInRange(min, max, random) == Add(min, Mul(random, Sub(max, min)))

\* A detector that leaves 500 out of the statuses it retries.
computeRetryInfo_responseNeedsRetry_Without500(statusCode) ==
    \/ statusCode = tooManyRequestsStatusCode
    \/ statusCode = serviceUnavailableStatusCode

\* computeRetryInfo, lines 182-185
computeRetryInfo_responseNeedsRetry(statusCode) ==
    \/ statusCode = tooManyRequestsStatusCode
    \/ statusCode = internalServerErrorStatusCode
    \/ statusCode = serviceUnavailableStatusCode

\* computeRetryInfo, lines 187-202: the value of unjitteredRetryDelayMillis
\* for a response that needs a retry.
computeRetryInfo_unjitteredRetryDelayMillis(lastRetryDelayMillis, o, response) ==
    LET retryAfterHeader == HeadersGet(response.headers, "Retry-After")
    IN  IF Truthy(retryAfterHeader)
        THEN LET retryAfterSeconds == parseInt(trim(retryAfterHeader.value))
             IN  Mul(Num(1000), retryAfterSeconds)
        ELSE IF Gt(lastRetryDelayMillis, Num(0))
             THEN MathMin(Mul(o.backoffMultiplier, lastRetryDelayMillis),
                          o.maxRetryDelayMillis)
             ELSE o.initialRetryDelayMillis

\* computeRetryInfo(remainingRetries, lastRetryDelayMillis, options, response)
\* with Math.random() = random
computeRetryInfo(remainingRetries, lastRetryDelayMillis, o, response, random) ==
    IF computeRetryInfo_responseNeedsRetry(response.status)
    THEN LET unjittered == computeRetryInfo_unjitteredRetryDelayMillis(
                               lastRetryDelayMillis, o, response)
         IN  IF remainingRetries > 0 /\ Gt(unjittered, Num(0))
             THEN LET jitterMultiplier == randomInRange(Num(minJitterMultiplier),
                                                        o.maxJitterMultiplier, random)
                      retryDelayMillis == Mul(unjittered, jitterMultiplier)
                  IN  RetryInfo(remainingRetries - 1, retryDelayMillis)
             ELSE NoRetryInfo
    ELSE NoRetryInfo

\* ------------------------------------------------ several requests at once

\* setRateLimitingFetchStatsRecorder(recorder): the caller injects the
\* recorder it holds.
setRateLimitingFetchStatsRecorder(recorder) ==
    /\ constructed = "ok"
    /\ statsRecorder' = recorder
    /\ UNCHANGED <<constructed, fetchImplementation, nextMockFetchInfo, options, debugEnabled, stats, calls>>

\* The recorders a caller injects; the Noop one is there from construction.
StatsRecorders == {"Simple"}

\* Valid options: the defaults with one retry only, and the defaults without
\* jitter (two retries, so that the second delay backs off from the first).
ConcurrentOptionValues ==
    { [nonUiContextRateLimitingHandlingOptionsDefaults EXCEPT !.maxRetries = 1],
      [nonUiContextRateLimitingHandlingOptionsDefaults EXCEPT !.maxJitterMultiplier = Num(1)] }

\* What the transport answers while several requests are in flight.
ConcurrentTransportResponses ==
    { Response(200, NoHeaders),
      Response(tooManyRequestsStatusCode, NoHeaders),
      Response(tooManyRequestsStatusCode, RetryAfter(<<"5">>)) }

\* Two fetch calls on one instance: the second may start while the first is
\* awaiting its transport, or after it finished.
InitConcurrent == InitCalls({1, 2})

NextConcurrent ==
    \/ \E o \in ConcurrentOptionValues : Constructor(o)
    \/ \E recorder \in StatsRecorders : setRateLimitingFetchStatsRecorder(recorder)
    \/ \E c \in Calls, request \in Requests : Fetch(c, request)
    \/ \E c \in Calls, resp \in ConcurrentTransportResponses, random \in RandomValues :
           TransportReturns(c, resp, random)
    \/ \E c \in Calls : TransportThrows(c)
    \/ \E c \in Calls : \E n \in calls[c].timers : TimerFires(c, n)

SpecConcurrent == InitConcurrent /\ [][NextConcurrent]_vars

\* ------------------------------------------- a transport that always answers

\* The steps of a request whose transport never raises.
NextLive ==
    \/ \E o \in OptionValues : Constructor(o)
    \/ \E c \in Calls, request \in Requests : Fetch(c, request)
    \/ \E c \in Calls, resp \in TransportResponses, random \in RandomValues :
           TransportReturns(c, resp, random)
    \/ \E c \in Calls : \E n \in calls[c].timers : TimerFires(c, n)

\* Every transport invocation is answered in the end, and the event loop then
\* resumes the awaiting frame; every timer set by _delay fires in the end.
Fairness ==
    /\ WF_vars(\E c \in Calls, resp \in TransportResponses, random \in RandomValues :
                   TransportReturns(c, resp, random))
    /\ WF_vars(\E c \in Calls : \E n \in calls[c].timers : TimerFires(c, n))

SpecLive == Init /\ [][NextLive]_vars /\ Fairness

\* ------------------------------------------------------------ debug logging

\* setDebugEnabled(enabled)
setDebugEnabled(enabled) ==
    /\ constructed = "ok"
    /\ debugEnabled' = enabled
    /\ UNCHANGED <<constructed, fetchImplementation, nextMockFetchInfo, options, statsRecorder, stats, calls>>

\* Valid options for the runs with debug logging: the defaults, the defaults
\* with a ceiling of 4000 ms and no jitter, and a single retry.
DebugOptionValues ==
    { nonUiContextRateLimitingHandlingOptionsDefaults,
      [nonUiContextRateLimitingHandlingOptionsDefaults EXCEPT
          !.maxRetryDelayMillis = Num(4000), !.maxJitterMultiplier = Num(1)],
      [nonUiContextRateLimitingHandlingOptionsDefaults EXCEPT !.maxRetries = 1] }

\* One request on an instance whose debug logging is switched on and off at
\* any time, also between two attempts.
NextDebug ==
    \/ \E o \in DebugOptionValues : Constructor(o)
    \/ \E enabled \in BOOLEAN : setDebugEnabled(enabled)
    \/ \E c \in Calls, request \in Requests : Fetch(c, request)
    \/ \E c \in Calls, resp \in TransportResponses, random \in RandomValues :
           TransportReturns(c, resp, random)
    \/ \E c \in Calls : TransportThrows(c)
    \/ \E c \in Calls : \E n \in calls[c].timers : TimerFires(c, n)

SpecDebug == Init /\ [][NextDebug]_vars

\* ------------------------------------------------- injected collaborators

\* setFetchImplementation(fetchImplementation)
setFetchImplementation(implementation) ==
    /\ constructed = "ok"
    /\ fetchImplementation' = implementation
    /\ UNCHANGED <<constructed, nextMockFetchInfo, options, statsRecorder,
                   debugEnabled, stats, calls>>

\* SimpleMockFetchController.setNextMockFetchInfo(nextMockFetchInfo), on the
\* controller of the caller's MockingFetch.
setNextMockFetchInfo(info) ==
    /\ nextMockFetchInfo' = info
    /\ UNCHANGED <<constructed, fetchImplementation, options, statsRecorder,
                   debugEnabled, stats, calls>>

\* The fetch implementations a caller injects: a NodeFetch or its MockingFetch.
FetchImplementations == {"NodeFetch", "MockingFetch"}

\* The recorders a caller injects here: a Noop one or its Simple one.
InjectedStatsRecorders == {"Noop", "Simple"}

\* What a caller gives the controller: undefined, 429 with Retry-After: 5 as
\* the test does, or 503 without headers.
MockFetchInfos ==
    { NoMockFetchInfo,
      MockFetchInfo(tooManyRequestsStatusCode, RetryAfter(<<"5">>)),
      MockFetchInfo(serviceUnavailableStatusCode, NoHeaders) }

\* What a real exchange brings.
RealResponses ==
    { Response(200, NoHeaders), Response(tooManyRequestsStatusCode, NoHeaders) }

\* The request the caller makes.
InjectionRequests == {[url |-> "https://example.com/b", init |-> RequestInit("POST")]}

\* The options of the instance the collaborators are injected into: the
\* defaults with a single retry.
InjectionOptionValues ==
    { [nonUiContextRateLimitingHandlingOptionsDefaults EXCEPT !.maxRetries = 1] }

\* Two fetch calls on one instance, with setFetchImplementation and
\* setRateLimitingFetchStatsRecorder called at any time before, between and
\* during them.  The controller of the MockingFetch has no mock info, so both
\* implementations make real exchanges.
NextInjection ==
    \/ \E o \in InjectionOptionValues : Constructor(o)
    \/ \E implementation \in FetchImplementations : setFetchImplementation(implementation)
    \/ \E recorder \in InjectedStatsRecorders : setRateLimitingFetchStatsRecorder(recorder)
    \/ \E c \in Calls, request \in InjectionRequests : Fetch(c, request)
    \/ \E c \in Calls, resp \in RealResponses, random \in RandomValues :
           TransportReturns(c, resp, random)
    \/ \E c \in Calls : TransportThrows(c)
    \/ \E c \in Calls : \E n \in calls[c].timers : TimerFires(c, n)

SpecInjection == InitCalls({1, 2}) /\ [][NextInjection]_vars

\* ------------------------------------------------------- a mocked transport

\* A fetch call on an instance constructed with the defaults whose fetch
\* implementation is set to a MockingFetch, as in the test, with the mock info
\* of its controller set and cleared at any time, also between two attempts.
NextMock ==
    \/ Constructor(nonUiContextRateLimitingHandlingOptionsDefaults)
    \/ setFetchImplementation("MockingFetch")
    \/ \E info \in MockFetchInfos : setNextMockFetchInfo(info)
    \/ \E c \in Calls, request \in InjectionRequests : Fetch(c, request)
    \/ \E c \in Calls,
          resp \in RealResponses
                     \cup {rateLimitResponse(i) : i \in MockFetchInfos \ {NoMockFetchInfo}},
          random \in RandomValues :
           TransportReturns(c, resp, random)
    \/ \E c \in Calls : TransportThrows(c)
    \/ \E c \in Calls : \E n \in calls[c].timers : TimerFires(c, n)

SpecMock == Init /\ [][NextMock]_vars

Next ==
    \/ \E o \in OptionValues : Constructor(o)
    \/ \E c \in Calls, request \in Requests : Fetch(c, request)
    \/ \E c \in Calls, resp \in TransportResponses, random \in RandomValues :
           TransportReturns(c, resp, random)
    \/ \E c \in Calls : TransportThrows(c)
    \/ \E c \in Calls : \E n \in calls[c].timers : TimerFires(c, n)

Spec == Init /\ [][Next]_vars

\* ================================================================== claims

RetryableStatusCodes == {429, 500, 503}

\* The last frame of request c that resumed did so with a response.
Resumed(c) == calls[c].resumed.response.attempt > 0

HasRetryAfter(response) == "Retry-After" \in DOMAIN response.headers

\* C1: within one logical request, the transport invocation of attempt n+1
\* never happens before the delay timer started after attempt n's retryable
\* response has fired: in every step that invokes the transport for attempt
\* n+1, the timer of attempt n is no longer pending.
C1_NextAttemptAfterDelay ==
    [][\A c \in DOMAIN calls :
          (calls[c].invocations >= 1 /\ calls'[c].invocations = calls[c].invocations + 1)
              => calls[c].invocations \notin calls'[c].timers]_vars

\* C2: one fetch call makes at most maxRetries + 1 transport invocations and
\* logs at most maxRetries retries; a call that returned a retryable response
\* with a positive unjittered delay (so every response was of that kind) made
\* exactly maxRetries + 1 invocations and logged exactly maxRetries retries.
C2_InvocationsBounded ==
    \A c \in Calls :
        /\ calls[c].pc # "idle" =>
              /\ calls[c].invocations <= options.maxRetries + 1
              /\ calls[c].retriesLogged <= options.maxRetries
              /\ calls[c].retriesLogged = calls[c].invocations - 1
        /\ ( /\ calls[c].pc = "returned"
             /\ calls[c].returned.status \in RetryableStatusCodes
             /\ Gt(calls[c].resumed.unjitteredRetryDelayMillis, Num(0)) ) =>
              /\ calls[c].invocations = options.maxRetries + 1
              /\ calls[c].retriesLogged = options.maxRetries

\* C2 witness: with maxRetries = 2 a call over retryable responses returned
\* after three invocations and two retries.
C2_Witness ==
    \E c \in Calls :
        /\ options.maxRetries = 2
        /\ calls[c].pc = "returned"
        /\ calls[c].returned.status \in RetryableStatusCodes
        /\ Gt(calls[c].resumed.unjitteredRetryDelayMillis, Num(0))
        /\ calls[c].invocations = 3
        /\ calls[c].retriesLogged = 2

\* C3: when a frame resumes with no retries left and a retryable response,
\* fetch returns (it does not raise), and what it returns is the response of
\* the last transport invocation of the call, with its retryable status.
C3_ExhaustedReturnsLastResponse ==
    \A c \in Calls :
        ( /\ Resumed(c)
          /\ calls[c].resumed.remainintRetries = 0
          /\ calls[c].resumed.response.status \in RetryableStatusCodes ) =>
            /\ calls[c].pc = "returned"
            /\ calls[c].returned = calls[c].resumed.response
            /\ calls[c].returned.attempt = calls[c].invocations
            /\ calls[c].returned.status \in RetryableStatusCodes

\* C3 witness: a budget of two retries is used up and the third 503 is returned.
C3_Witness ==
    \E c \in Calls :
        /\ options.maxRetries = 2
        /\ calls[c].pc = "returned"
        /\ calls[c].resumed.remainintRetries = 0
        /\ calls[c].returned.status = 503
        /\ calls[c].returned.attempt = 3
        /\ calls[c].invocations = 3

\* C4: a response whose status is not 429, 500 or 503 is never retried,
\* whatever remainintRetries and lastRetryDelayMillis are and also with a
\* Retry-After header: computeRetryInfo returns undefined for it, and fetch
\* returns that response, logs no retry for it and invokes the transport no more.
C4_NonRetryablePassThrough ==
    \A c \in Calls :
        ( /\ Resumed(c)
          /\ calls[c].resumed.response.status \notin RetryableStatusCodes ) =>
            /\ ~calls[c].resumed.retried
            /\ calls[c].pc = "returned"
            /\ calls[c].returned = calls[c].resumed.response
            /\ calls[c].invocations = calls[c].resumed.response.attempt
            /\ calls[c].retriesLogged = calls[c].resumed.response.attempt - 1
            /\ calls[c].retriesLogged =
                   options.maxRetries - calls[c].resumed.remainintRetries
            /\ \A random \in RandomValues :
                   computeRetryInfo(calls[c].resumed.remainintRetries,
                                    calls[c].resumed.lastRetryDelayMillis,
                                    options, calls[c].resumed.response, random)
                       = NoRetryInfo

\* C4 witness: a 200 with Retry-After: 5 arrives on the second attempt, with
\* a retry left and a previous delay, and is returned.
C4_Witness ==
    \E c \in Calls :
        /\ calls[c].pc = "returned"
        /\ calls[c].returned.status = 200
        /\ HasRetryAfter(calls[c].returned)
        /\ calls[c].returned.attempt = 2
        /\ calls[c].resumed.remainintRetries > 0
        /\ Gt(calls[c].resumed.lastRetryDelayMillis, Num(0))
        /\ calls[c].invocations = 2

\* The Retry-After values of the model that are an integer number of seconds
\* greater than 0, with that number.
PositiveRetryAfterSeconds(value) ==
    IF value = <<"5">> THEN 5
    ELSE IF value = <<" ", "1", " ">> THEN 1
    ELSE 0

\* C5: for a retryable response with Retry-After: s, s > 0, and retries left,
\* the unjittered delay is 1000 * s whatever lastRetryDelayMillis and the
\* options are, and a retry is issued with a delay in
\* [1000 * s, 1000 * s * maxJitterMultiplier]; computeRetryInfo decides the same.
C5_RetryAfterPrecedence ==
    \A c \in Calls :
        LET f == calls[c].resumed
            s == IF HasRetryAfter(f.response)
                 THEN PositiveRetryAfterSeconds(f.response.headers["Retry-After"])
                 ELSE 0
        IN  ( /\ Resumed(c)
              /\ f.response.status \in RetryableStatusCodes
              /\ s > 0
              /\ f.remainintRetries > 0 ) =>
                /\ f.unjitteredRetryDelayMillis = Num(1000 * s)
                /\ f.retried
                /\ Le(Num(1000 * s), f.retryDelayMillis)
                /\ Le(f.retryDelayMillis, Mul(Num(1000 * s), options.maxJitterMultiplier))
                /\ calls[c].invocations > f.response.attempt
                /\ \A random \in RandomValues :
                      LET info == computeRetryInfo(f.remainintRetries, f.lastRetryDelayMillis,
                                                   options, f.response, random)
                      IN  /\ info.defined
                          /\ info.remainingRetries = f.remainintRetries - 1
                          /\ Le(Num(1000 * s), info.retryDelayMillis)
                          /\ Le(info.retryDelayMillis,
                                Mul(Num(1000 * s), options.maxJitterMultiplier))

\* C5 witness: Retry-After: 5 on the second attempt, after a first retry whose
\* delay the backoff would have multiplied, is retried after 5000 ms and more.
C5_Witness ==
    \E c \in Calls :
        LET f == calls[c].resumed
        IN  /\ f.response.attempt = 2
            /\ f.response.status \in RetryableStatusCodes
            /\ HasRetryAfter(f.response)
            /\ f.response.headers["Retry-After"] = <<"5">>
            /\ Gt(f.lastRetryDelayMillis, Num(0))
            /\ f.retried
            /\ f.unjitteredRetryDelayMillis = Num(5000)
            /\ Gt(f.retryDelayMillis, Num(5000))
            /\ calls[c].invocations = 3

\* C6: for every retry issued, in every branch and for every jitter draw,
\* unjittered delay <= retryDelayMillis <= unjittered delay * maxJitterMultiplier.
C6_JitterBound ==
    \A c \in Calls :
        LET f == calls[c].resumed
        IN  f.retried =>
              /\ Le(f.unjitteredRetryDelayMillis, f.retryDelayMillis)
              /\ Le(f.retryDelayMillis,
                    Mul(f.unjitteredRetryDelayMillis, options.maxJitterMultiplier))
              /\ calls[c].lastRetryDelayMillis = f.retryDelayMillis

\* C6 witness: a Retry-After delay is jittered to strictly more than the
\* server asked for.
C6_Witness ==
    \E c \in Calls :
        LET f == calls[c].resumed
        IN  /\ f.retried
            /\ HasRetryAfter(f.response)
            /\ Gt(f.jitterMultiplier, Num(1))
            /\ Gt(f.retryDelayMillis, f.unjitteredRetryDelayMillis)

\* C7: for a retryable response without Retry-After header, the unjittered
\* delay is initialRetryDelayMillis on the first attempt and
\* min(backoffMultiplier * d, maxRetryDelayMillis) on a later one, d being the
\* delay of the previous retry of the request, which is the
\* lastRetryDelayMillis the next frame is given; computeRetryInfo computes the
\* same.
C7_BackoffGrowth ==
    \A c \in Calls :
        LET f == calls[c].resumed
            expected == IF f.response.attempt = 1
                        THEN options.initialRetryDelayMillis
                        ELSE MathMin(Mul(options.backoffMultiplier, f.lastRetryDelayMillis),
                                     options.maxRetryDelayMillis)
        IN  /\ ( /\ Resumed(c)
                 /\ f.response.status \in RetryableStatusCodes
                 /\ ~HasRetryAfter(f.response) ) =>
                   /\ f.unjitteredRetryDelayMillis = expected
                   /\ computeRetryInfo_unjitteredRetryDelayMillis(
                          f.lastRetryDelayMillis, options, f.response) = expected
            /\ (f.retried /\ calls[c].pc = "awaiting") =>
                   calls[c].lastRetryDelayMillis = f.retryDelayMillis
            /\ (Resumed(c) /\ f.response.attempt = 1) => f.lastRetryDelayMillis = Num(0)

\* C7 witness: a second header-less retry whose backoff is below the ceiling.
C7_Witness ==
    \E c \in Calls :
        LET f == calls[c].resumed
        IN  /\ f.response.attempt = 2
            /\ f.retried
            /\ ~HasRetryAfter(f.response)
            /\ Gt(f.lastRetryDelayMillis, options.initialRetryDelayMillis)
            /\ f.unjitteredRetryDelayMillis =
                   Mul(options.backoffMultiplier, f.lastRetryDelayMillis)
            /\ Lt(f.unjitteredRetryDelayMillis, options.maxRetryDelayMillis)

\* C8: for every retry issued, whichever branch its delay comes from, the
\* unjittered delay is <= maxRetryDelayMillis.
C8_DelayCeiling ==
    \A c \in Calls :
        calls[c].resumed.retried =>
            Le(calls[c].resumed.unjitteredRetryDelayMillis, options.maxRetryDelayMillis)

\* The value the backoff branch gives a frame with this lastRetryDelayMillis.
BackoffBranch(lastRetryDelayMillis) ==
    IF Gt(lastRetryDelayMillis, Num(0))
    THEN MathMin(Mul(options.backoffMultiplier, lastRetryDelayMillis),
                 options.maxRetryDelayMillis)
    ELSE options.initialRetryDelayMillis

\* C9: a retryable response whose Retry-After header cannot be parsed as an
\* integer is treated as one without the header: the request is retried
\* exactly when retries are left and the backoff branch gives a positive
\* delay, and the retry's unjittered delay is that of the backoff branch.
C9_UnparseableRetryAfter ==
    \A c \in Calls :
        LET f == calls[c].resumed
        IN  ( /\ Resumed(c)
              /\ f.response.status \in RetryableStatusCodes
              /\ HasRetryAfter(f.response)
              /\ f.response.headers["Retry-After"] = <<"x">> ) =>
                /\ f.retried = ( /\ f.remainintRetries > 0
                                 /\ Gt(BackoffBranch(f.lastRetryDelayMillis), Num(0)) )
                /\ f.retried =>
                       f.unjitteredRetryDelayMillis = BackoffBranch(f.lastRetryDelayMillis)

\* The three conditions of construction failure.
InvalidOptions(o) ==
    \/ o.maxRetries < 0
    \/ o.maxRetryDelayMillis.n <= 0
    \/ o.maxJitterMultiplier.n < o.maxJitterMultiplier.d

C11_TransportErrorPropagates ==
    [][\A c \in Calls :
          /\ calls'[c].pc \in {"awaiting", "threw"} =>
                /\ calls'[c].resumed.response.attempt = calls'[c].invocations - 1
                /\ calls'[c].retriesLogged = calls'[c].invocations - 1
                /\ calls'[c].returned = NoResponse
          /\ (calls[c].pc = "awaiting" /\ calls'[c].pc = "threw") =>
                /\ calls'[c].invocations = calls[c].invocations
                /\ calls'[c].retriesLogged = calls[c].retriesLogged
                /\ stats' = stats
          /\ calls[c].pc = "threw" =>
                /\ calls'[c].pc = "threw"
                /\ calls'[c].invocations = calls[c].invocations
                /\ calls'[c].retriesLogged = calls[c].retriesLogged
                /\ calls'[c].returned = NoResponse
                /\ stats' = stats]_vars

\* C11 witness: the transport raised on the second attempt of a request, after
\* one retry, while that retry's delay timer was still pending.
C11_Witness ==
    \E c \in Calls :
        /\ calls[c].pc = "threw"
        /\ calls[c].invocations = 2
        /\ calls[c].retriesLogged = 1
        /\ calls[c].resumed.retried
        /\ calls[c].timers = {1}

\* C12: concurrent fetch calls on one instance do not interfere.  Under every
\* interleaving a step of one request leaves every other request's
\* bookkeeping alone; a frame that resumes works on the remainintRetries and
\* lastRetryDelayMillis its own request held, with the response to its own
\* latest attempt; a retry continues with that frame's own delay and a
\* decision not to retry returns that frame's own response; each request
\* makes at most maxRetries + 1 invocations and the retries it has left are
\* maxRetries minus the retries it made itself.
C12_CallsDoNotInterfere ==
    [][\A c \in Calls :
          /\ calls'[c] # calls[c] => \A d \in Calls \ {c} : calls'[d] = calls[d]
          /\ calls'[c].resumed # calls[c].resumed =>
                LET f == calls'[c].resumed
                IN  /\ f.remainintRetries = calls[c].remainintRetries
                    /\ f.lastRetryDelayMillis = calls[c].lastRetryDelayMillis
                    /\ f.response.attempt = calls[c].invocations
                    /\ f.responseNeedsRetry =>
                          f.unjitteredRetryDelayMillis =
                              unjitteredRetryDelayMillis(options, calls[c].lastRetryDelayMillis,
                                                         f.response)
                    /\ f.retried =>
                          /\ calls'[c].pc = "awaiting"
                          /\ calls'[c].remainintRetries = calls[c].remainintRetries - 1
                          /\ calls'[c].lastRetryDelayMillis = f.retryDelayMillis
                          /\ calls'[c].invocations = calls[c].invocations + 1
                    /\ ~f.retried =>
                          /\ calls'[c].pc = "returned"
                          /\ calls'[c].returned = f.response
                          /\ calls'[c].invocations = calls[c].invocations
          /\ calls'[c].invocations <= options'.maxRetries + 1
          /\ calls'[c].pc = "awaiting" =>
                calls'[c].remainintRetries = options'.maxRetries - calls'[c].retriesLogged]_vars

\* C12 witness: the second request started while the first was in flight,
\* used up its two retries (delays 5000 and 10000) and returned its own third
\* 429, while the first request still awaits its second attempt with one
\* retry left and its own delay of 5000.
C12_Witness ==
    /\ calls[1].pc = "awaiting"
    /\ calls[1].invocations = 2
    /\ calls[1].remainintRetries = 1
    /\ calls[1].lastRetryDelayMillis = Num(5000)
    /\ calls[2].pc = "returned"
    /\ calls[2].invocations = 3
    /\ calls[2].lastRetryDelayMillis = Num(10000)
    /\ calls[2].resumed.remainintRetries = 0
    /\ calls[2].returned.status = tooManyRequestsStatusCode
    /\ calls[2].returned.attempt = 3

\* The transport invocations the requests of S made so far, all together.
RECURSIVE TransportInvocations(_, _)
TransportInvocations(cs, S) ==
    IF S = {} THEN 0
    ELSE LET c == CHOOSE x \in S : TRUE
         IN  cs[c].invocations + TransportInvocations(cs, S \ {c})

\* The fetch calls made so far.
FetchCalls(cs) == {c \in DOMAIN cs : cs[c].pc # "idle"}

\* The counters of the injected recorder account for every attempt and retry.
StatsComplete(cs, st) ==
    /\ st.fetchAttemptCount = TransportInvocations(cs, DOMAIN cs)
    /\ st.fetchRetryCount = st.fetchAttemptCount - Cardinality(FetchCalls(cs))

\* C13: with a SimpleRateLimitingFetchStatsRecorder injected no increment is
\* lost, whether the fetch calls run one after the other or interleaved.  The
\* counters are complete when the recorder is in place before the first call,
\* and stay complete over every step taken with the recorder in place:
\* fetchAttemptCount is the number of transport invocations and
\* fetchRetryCount is fetchAttemptCount minus the number of fetch calls made.
\* Every retry logged while the recorder is in place adds exactly its delay to
\* totalFetchRetryDelay and no other step changes it.  No counter ever
\* decreases.
C13_NoIncrementLost ==
    [][/\ (\A c \in Calls : calls'[c].pc = "idle") => StatsComplete(calls', stats')
       /\ (statsRecorder' = "Simple" /\ StatsComplete(calls, stats)) =>
              StatsComplete(calls', stats')
       /\ statsRecorder = "Simple" =>
              LET retrying == {c \in Calls :
                                  calls'[c].retriesLogged = calls[c].retriesLogged + 1}
              IN  IF retrying = {}
                  THEN stats'.totalFetchRetryDelay = stats.totalFetchRetryDelay
                  ELSE \E c \in retrying :
                          /\ retrying = {c}
                          /\ stats'.totalFetchRetryDelay =
                                 Add(stats.totalFetchRetryDelay,
                                     calls'[c].lastRetryDelayMillis)
       /\ stats'.fetchAttemptCount >= stats.fetchAttemptCount
       /\ stats'.fetchRetryCount >= stats.fetchRetryCount
       /\ Le(stats.totalFetchRetryDelay, stats'.totalFetchRetryDelay)]_vars

\* C13 witness: with the recorder in place, two requests finished: one after
\* one retry (delay 5000), the other after two (5000 and 10000).  Five
\* attempts, three retries, 20000 ms of delay.
C13_Witness ==
    /\ statsRecorder = "Simple"
    /\ \A c \in Calls : calls[c].pc = "returned"
    /\ calls[1].invocations = 2
    /\ calls[2].invocations = 3
    /\ StatsComplete(calls, stats)
    /\ stats = [fetchAttemptCount |-> 5, fetchRetryCount |-> 3,
                totalFetchRetryDelay |-> Num(20000)]

\* C14: every fetch call starts from remainintRetries = options.maxRetries
\* and lastRetryDelayMillis = 0, whatever earlier calls on the instance did:
\* the step that starts a request sets exactly these, the frame of a first
\* attempt resumes with them, and a first retryable response without
\* Retry-After gets initialRetryDelayMillis as its unjittered delay.
C14_FreshStart ==
    [][\A c \in Calls :
          /\ (calls[c].pc = "idle" /\ calls'[c].pc # "idle") =>
                /\ calls'[c].pc = "awaiting"
                /\ calls'[c].remainintRetries = options.maxRetries
                /\ calls'[c].lastRetryDelayMillis = Num(0)
                /\ calls'[c].invocations = 1
          /\ calls'[c].resumed.response.attempt = 1 =>
                LET f == calls'[c].resumed
                IN  /\ f.remainintRetries = options.maxRetries
                    /\ f.lastRetryDelayMillis = Num(0)
                    /\ (f.responseNeedsRetry /\ ~HasRetryAfter(f.response)) =>
                          /\ f.unjitteredRetryDelayMillis = options.initialRetryDelayMillis
                          /\ f.retried = (options.maxRetries > 0
                                          /\ Gt(options.initialRetryDelayMillis, Num(0)))]_vars

\* C14 witness: the first request used up both retries and returned a 429;
\* the second, started after that, retried its first 429 with two retries in
\* hand and an unjittered delay of initialRetryDelayMillis.
C14_Witness ==
    /\ options.maxRetries = 2
    /\ calls[1].pc = "returned"
    /\ calls[1].invocations = 3
    /\ calls[1].resumed.remainintRetries = 0
    /\ calls[1].returned.status = tooManyRequestsStatusCode
    /\ calls[2].pc = "awaiting"
    /\ calls[2].resumed.response.attempt = 1
    /\ calls[2].resumed.remainintRetries = 2
    /\ calls[2].resumed.retried
    /\ ~HasRetryAfter(calls[2].resumed.response)
    /\ calls[2].resumed.unjitteredRetryDelayMillis = options.initialRetryDelayMillis
    /\ calls[2].remainintRetries = 1

\* C15: maxRetries is the maximum number of fetch attempts: a request never
\* makes more than options.maxRetries transport invocations (stated for
\* options that allow at least one attempt).
C15_AttemptsWithinMaxRetries ==
    \A c \in Calls :
        options.maxRetries >= 1 => calls[c].invocations <= options.maxRetries

\* C16: a retryable response with Retry-After: 0 gets an unjittered delay of
\* 0 and ends the retrying even with retries left: the request makes no retry
\* (none is logged, no delay timer is started, no further transport invocation
\* is made) and fetch returns that response.  computeRetryInfo decides the
\* same for it.
C16_RetryAfterZeroStops ==
    \A c \in Calls :
        LET f == calls[c].resumed
        IN  (/\ Resumed(c)
             /\ f.responseNeedsRetry
             /\ HeadersGet(f.response.headers, "Retry-After") = Defined(<<"0">>)) =>
                /\ f.unjitteredRetryDelayMillis = Num(0)
                /\ ~f.retried
                /\ calls[c].pc = "returned"
                /\ calls[c].returned = f.response
                /\ calls[c].invocations = f.response.attempt
                /\ calls[c].retriesLogged = f.response.attempt - 1
                /\ f.response.attempt \notin calls[c].timers
                /\ \A random \in RandomValues :
                       computeRetryInfo(f.remainintRetries, f.lastRetryDelayMillis,
                                        options, f.response, random) = NoRetryInfo

\* C16 witness: the first attempt of a request with two retries in hand was
\* answered 429 with Retry-After: 0, and fetch returned that 429.
C16_Witness ==
    \E c \in Calls :
        /\ calls[c].pc = "returned"
        /\ calls[c].resumed.remainintRetries = 2
        /\ calls[c].resumed.response.attempt = 1
        /\ calls[c].returned.status = tooManyRequestsStatusCode
        /\ HeadersGet(calls[c].returned.headers, "Retry-After") = Defined(<<"0">>)
        /\ calls[c].invocations = 1

\* C17: in every state of a logical request 0 <= remainintRetries <=
\* maxRetries.  A step in which the request retries decreases it by exactly 1
\* (and computeRetryInfo's RetryInfo carries that same, strictly smaller,
\* value); no other step of a started request changes it.  Once maxRetries
\* retries have been made, the frame that resumes has none left and decides
\* not to retry, whatever the response.
C17_BudgetMonotonic ==
    [][\A c \in Calls :
          /\ calls'[c].pc # "idle" =>
                /\ 0 <= calls'[c].remainintRetries
                /\ calls'[c].remainintRetries <= options'.maxRetries
          /\ calls[c].pc # "idle" =>
                IF calls'[c].retriesLogged = calls[c].retriesLogged + 1
                THEN /\ calls'[c].remainintRetries = calls[c].remainintRetries - 1
                     /\ \A random \in RandomValues :
                            LET info == computeRetryInfo(calls[c].remainintRetries,
                                            calls[c].lastRetryDelayMillis, options,
                                            calls'[c].resumed.response, random)
                            IN  /\ info.defined
                                /\ info.remainingRetries = calls'[c].remainintRetries
                                /\ info.remainingRetries < calls[c].remainintRetries
                ELSE calls'[c].remainintRetries = calls[c].remainintRetries
          /\ calls'[c].retriesLogged = options'.maxRetries =>
                /\ calls'[c].remainintRetries = 0
                /\ calls'[c].resumed.response.attempt = options'.maxRetries + 1 =>
                      /\ ~calls'[c].resumed.retried
                      /\ calls'[c].resumed.remainintRetries = 0
                      /\ \A random \in RandomValues :
                            computeRetryInfo(0, calls'[c].resumed.lastRetryDelayMillis,
                                options', calls'[c].resumed.response, random) = NoRetryInfo]_vars

\* C17 witness: with maxRetries = 1, the one retry was made and the second
\* attempt was answered 503 with a positive unjittered delay; the frame had no
\* retry left and the request ended there.
C17_Witness ==
    \E c \in Calls :
        /\ options.maxRetries = 1
        /\ calls[c].retriesLogged = 1
        /\ calls[c].remainintRetries = 0
        /\ calls[c].resumed.response.attempt = 2
        /\ calls[c].resumed.response.status = serviceUnavailableStatusCode
        /\ Gt(calls[c].resumed.unjitteredRetryDelayMillis, Num(0))
        /\ ~calls[c].resumed.retried
        /\ calls[c].pc = "returned"

\* C18: the decision _fetch takes inline agrees with
\* DefaultRetryDetector.computeRetryInfo on every input a frame resumes with
\* (same remainingRetries, lastRetryDelayMillis, options, response status and
\* Retry-After header, same jitter draw): _fetch retries exactly when
\* computeRetryInfo returns a RetryInfo, and then the request goes on with that
\* RetryInfo's remainingRetries and retryDelayMillis.
C18_DecisionAgreesWithDetector ==
    \A c \in Calls :
        LET f == calls[c].resumed
            info(random) == computeRetryInfo(f.remainintRetries, f.lastRetryDelayMillis,
                                             options, f.response, random)
            draws == {random \in RandomValues :
                         _randomInRange(Num(minJitterMultiplier),
                                        options.maxJitterMultiplier, random)
                             = f.jitterMultiplier}
        IN  Resumed(c) =>
              /\ \A random \in RandomValues : info(random).defined = f.retried
              /\ f.retried =>
                    /\ draws # {}
                    /\ \A random \in draws :
                          /\ info(random) = RetryInfo(f.remainintRetries - 1,
                                                      f.retryDelayMillis)
                          /\ calls[c].remainintRetries = info(random).remainingRetries
                          /\ calls[c].lastRetryDelayMillis = info(random).retryDelayMillis
              /\ ~f.retried => calls[c].returned = f.response

\* C18 witness: a second attempt answered 500 was retried by backing off from
\* the first delay, with a jitter multiplier above 1, and computeRetryInfo
\* returns a RetryInfo with the same delay for that draw.
C18_Witness ==
    \E c \in Calls, random \in RandomValues :
        LET f == calls[c].resumed
        IN  /\ f.response.attempt = 2
            /\ f.response.status = internalServerErrorStatusCode
            /\ f.retried
            /\ Gt(f.lastRetryDelayMillis, Num(0))
            /\ Gt(f.jitterMultiplier, Num(1))
            /\ computeRetryInfo(f.remainintRetries, f.lastRetryDelayMillis,
                                options, f.response, random)
                   = RetryInfo(calls[c].remainintRetries, calls[c].lastRetryDelayMillis)

\* C19: every fetch call ends with a response, provided every transport
\* invocation is answered and every delay timer fires: a request that is
\* awaiting its transport is eventually returned.  A request only ever ends
\* with the response of a frame that decided not to retry: one whose response
\* needed no retry, or that had no retry left or no positive delay.
C19_Terminates ==
    /\ [](\A c \in Calls :
             calls[c].pc = "returned" =>
                LET f == calls[c].resumed
                IN  /\ Resumed(c)
                    /\ ~f.retried
                    /\ calls[c].returned = f.response
                    /\ \/ ~f.responseNeedsRetry
                       \/ f.remainintRetries = 0
                       \/ ~Gt(f.unjitteredRetryDelayMillis, Num(0)))
    /\ \A c \in {1} : (calls[c].pc = "awaiting") ~> (calls[c].pc = "returned")

\* C19 witness: a request went through two retries and then ended with the
\* response to its third attempt, with the timers of both delays fired.
C19_Witness ==
    \E c \in Calls :
        /\ calls[c].pc = "returned"
        /\ calls[c].retriesLogged = 2
        /\ calls[c].returned.attempt = 3
        /\ calls[c].timers = {}

\* C20: every attempt of a request invokes the transport with the url and the
\* init the caller passed to fetch: each of the request's transport
\* invocations, the first and every retry, carries exactly these.
C20_SameRequestParameters ==
    \A c \in Calls :
        /\ Len(calls[c].transportCalls) = calls[c].invocations
        /\ \A i \in 1..Len(calls[c].transportCalls) :
               /\ calls[c].transportCalls[i].url = calls[c].url
               /\ calls[c].transportCalls[i].init = calls[c].init

\* C20 witness: a POST request was attempted three times.
C20_Witness ==
    \E c \in Calls :
        /\ calls[c].init = RequestInit("POST")
        /\ calls[c].retriesLogged = 2
        /\ Len(calls[c].transportCalls) = 3
        /\ calls[c].transportCalls[3] =
               [url |-> "https://example.com/b", init |-> RequestInit("POST")]

\* C21: the debug toggle never alters control flow.  Whenever a request has
\* invoked its transport, then for every response and jitter draw the frame
\* that resumes with debug logging on leaves its code with the same
\* parameters, locals and decision as with logging off, and only the run with
\* logging on writes to the console.  Every step that resumes a frame has,
\* apart from the console, the outcome the other setting of the toggle gives
\* for the same response and draw: the same retry or return, the same delay,
\* the same transport invocations and the same stats.  So two runs with the
\* same options, responses and draws that differ in the toggle go through the
\* same states apart from the console.
C21_DebugDoesNotAlterControlFlow ==
    [][\A c \in Calls :
          /\ calls'[c].invocations # calls[c].invocations =>
                \A resp \in TransportResponses, random \in RandomValues :
                    LET response == [status |-> resp.status, headers |-> resp.headers,
                                     attempt |-> calls'[c].invocations]
                    IN  \A on  \in {_fetchLocals(TRUE, options, calls'[c].remainintRetries,
                                        calls'[c].lastRetryDelayMillis, response, random)},
                           off \in {_fetchLocals(FALSE, options, calls'[c].remainintRetries,
                                        calls'[c].lastRetryDelayMillis, response, random)} :
                        /\ Frame(on) = Frame(off)
                        /\ off.console = <<>>
                        /\ on.console # <<>>
          /\ calls'[c].resumed # calls[c].resumed =>
                \E random \in RandomValues :
                    \E other \in {_fetchLocals(~debugEnabled, options,
                                      calls[c].remainintRetries,
                                      calls[c].lastRetryDelayMillis,
                                      calls'[c].resumed.response, random)} :
                        /\ calls'[c].resumed = Frame(other)
                        /\ debugEnabled' = debugEnabled
                        /\ IF other.retried
                           THEN /\ calls'[c].pc = "awaiting"
                                /\ calls'[c].invocations = calls[c].invocations + 1
                                /\ calls'[c].remainintRetries = other.remainintRetries - 1
                                /\ calls'[c].lastRetryDelayMillis = other.retryDelayMillis
                                /\ stats' = logFetchAttempt(statsRecorder,
                                               logRetry(statsRecorder, stats,
                                                        other.retryDelayMillis))
                           ELSE /\ calls'[c].pc = "returned"
                                /\ calls'[c].invocations = calls[c].invocations
                                /\ calls'[c].returned = other.response
                                /\ stats' = stats
                        /\ ~debugEnabled => calls'[c].console = calls[c].console]_vars

\* C21 witness: debug logging was switched on after the first attempt and off
\* after the second; the request logged the four lines of its second frame
\* only, and went through both retries to the response of its third attempt.
C21_Witness ==
    \E c \in Calls :
        /\ calls[c].pc = "returned"
        /\ ~debugEnabled
        /\ calls[c].retriesLogged = 2
        /\ calls[c].returned.attempt = 3
        /\ Len(calls[c].console) = 4

\* The retries the requests of S logged so far, all together.
RECURSIVE RetriesLogged(_, _)
RetriesLogged(cs, S) ==
    IF S = {} THEN 0
    ELSE LET c == CHOOSE x \in S : TRUE
         IN  cs[c].retriesLogged + RetriesLogged(cs, S \ {c})

\* Every transport invocation request c made went to implementation.
AllFetchedWith(c, cs, implementation) ==
    \A i \in 1..Len(cs[c].fetchedWith) : cs[c].fetchedWith[i] = implementation

\* C22: an injected collaborator is effective from the next fetch call on.
\* Every step that invokes the transport for a request invokes the fetch
\* implementation that is set at that moment; so a request started after
\* setFetchImplementation returned has all its invocations on the newly set
\* one, and this stays so over every step that is not another call of the
\* setter.  Every attempt and retry logged while the Simple recorder is set is
\* counted by it, and while another recorder is set the Simple one, set
\* before, gets none.
C22_SettersEffectiveFromNextCall ==
    [][/\ \A c \in Calls :
             /\ IF calls'[c].invocations = calls[c].invocations + 1
                THEN /\ calls'[c].fetchedWith =
                            Append(calls[c].fetchedWith, fetchImplementation)
                     /\ fetchImplementation' = fetchImplementation
                ELSE calls'[c].fetchedWith = calls[c].fetchedWith
             /\ (calls[c].pc = "idle" /\ calls'[c].pc # "idle") =>
                    AllFetchedWith(c, calls', fetchImplementation')
             /\ (/\ AllFetchedWith(c, calls, fetchImplementation)
                 /\ fetchImplementation' = fetchImplementation) =>
                    AllFetchedWith(c, calls', fetchImplementation')
       /\ IF statsRecorder = "Simple"
          THEN /\ stats'.fetchAttemptCount - stats.fetchAttemptCount =
                      TransportInvocations(calls', Calls) - TransportInvocations(calls, Calls)
               /\ stats'.fetchRetryCount - stats.fetchRetryCount =
                      RetriesLogged(calls', Calls) - RetriesLogged(calls, Calls)
          ELSE stats' = stats]_vars

\* C22 witness: the first request ran on the NodeFetch and the Noop recorder
\* the instance starts with; then a MockingFetch and a Simple recorder were
\* set and the second request ran: its two attempts went to the MockingFetch
\* and the recorder counted exactly these two attempts and their one retry.
C22_Witness ==
    /\ fetchImplementation = "MockingFetch"
    /\ statsRecorder = "Simple"
    /\ calls[1].pc = "returned"
    /\ calls[1].fetchedWith = <<"NodeFetch", "NodeFetch">>
    /\ calls[2].pc = "returned"
    /\ calls[2].fetchedWith = <<"MockingFetch", "MockingFetch">>
    /\ stats.fetchAttemptCount = 2
    /\ stats.fetchRetryCount = 1

\* C23: the mock info given to SimpleMockFetchController.setNextMockFetchInfo
\* stays in force for every following MockingFetch.fetch, not only the next
\* one.  No step of a request changes nextMockFetchInfo; every invocation of
\* the MockingFetch gets the info that is set at that moment; an invocation
\* that got a defined info resolves, without a real exchange (it cannot fail
\* as one can), with a response of the info's status code and headers; an
\* invocation made while undefined is set gets no info and makes the real
\* exchange.
\* Hence a request that returns the response mocked as 429 with
\* Retry-After: 5 has used its whole budget.
C23_MockInfoPersists ==
    [][\A c \in Calls :
          /\ calls'[c] # calls[c] => nextMockFetchInfo' = nextMockFetchInfo
          /\ (/\ calls'[c].invocations = calls[c].invocations + 1
              /\ fetchImplementation = "MockingFetch") =>
                 calls'[c].mockFetchInfo = nextMockFetchInfo
          /\ calls[c].pc = "awaiting" /\ calls[c].mockFetchInfo.defined =>
                 calls'[c].pc # "threw"
          /\ calls'[c].resumed # calls[c].resumed =>
                 LET response == calls'[c].resumed.response
                     info     == calls[c].mockFetchInfo
                 IN  info.defined =>
                         /\ response.status = info.responseStatusCode
                         /\ response.headers = info.headers
          /\ (/\ calls'[c].pc = "returned"
              /\ calls'[c].returned.status = tooManyRequestsStatusCode
              /\ HeadersGet(calls'[c].returned.headers, "Retry-After") = Defined(<<"5">>)) =>
                 /\ calls'[c].invocations = options.maxRetries + 1
                 /\ calls'[c].retriesLogged = options.maxRetries]_vars

\* C23 witness: with the mock info set once to 429 with Retry-After: 5, the
\* request made all three attempts on the MockingFetch, each answered with
\* the fabricated 429, and returned it.
C23_Witness ==
    \E c \in Calls :
        /\ nextMockFetchInfo = MockFetchInfo(tooManyRequestsStatusCode, RetryAfter(<<"5">>))
        /\ calls[c].pc = "returned"
        /\ calls[c].fetchedWith = <<"MockingFetch", "MockingFetch", "MockingFetch">>
        /\ calls[c].mockFetchInfo = nextMockFetchInfo
        /\ calls[c].returned.status = tooManyRequestsStatusCode
        /\ calls[c].returned.attempt = 3
        /\ calls[c].resumed.unjitteredRetryDelayMillis = Num(5000)

\* C24: options with initialRetryDelayMillis <= 0 pass the validation of the
\* constructor (it fails for no other reason than those of InvalidOptions),
\* and with such options a first response that is a 429, 500 or 503 without
\* Retry-After is not retried, whatever maxRetries is: the request makes that
\* one transport invocation, logs no retry and returns the response.
C24_NonPositiveInitialDelayNeverRetries ==
    /\ (constructed # "none" /\ Le(options.initialRetryDelayMillis, Num(0))) =>
           (constructed = "ok") = ~InvalidOptions(options)
    /\ \A c \in Calls :
           LET f == calls[c].resumed
           IN  (/\ Le(options.initialRetryDelayMillis, Num(0))
                /\ f.response.attempt = 1
                /\ f.response.status \in RetryableStatusCodes
                /\ ~HasRetryAfter(f.response)) =>
                   /\ f.unjitteredRetryDelayMillis = options.initialRetryDelayMillis
                   /\ ~f.retried
                   /\ calls[c].pc = "returned"
                   /\ calls[c].returned = f.response
                   /\ calls[c].invocations = 1
                   /\ calls[c].retriesLogged = 0
                   /\ calls[c].timers = {}

\* C24 witness: constructed with two retries and an initialRetryDelayMillis
\* of 0, the instance returned the header-less 500 of the first attempt.
C24_Witness ==
    \E c \in Calls :
        /\ constructed = "ok"
        /\ options.maxRetries = 2
        /\ options.initialRetryDelayMillis = Num(0)
        /\ calls[c].pc = "returned"
        /\ calls[c].invocations = 1
        /\ calls[c].resumed.remainintRetries = 2
        /\ calls[c].returned.status = internalServerErrorStatusCode
        /\ ~HasRetryAfter(calls[c].returned)

====
